---------------------------- MODULE Spec2Model ----------------------------
(***************************************************************************)
(* A model of actime's activity tracker and batched persistence:           *)
(*   core.Timer / core.Tracker   (src/unnamed/part_007, part_006)          *)
(*   service.Service             (src/internal/service/service.go)         *)
(*   storage.DB write paths      (src/internal/storage/db.go)              *)
(*                                                                         *)
(* Time is counted in whole seconds.  The tracker's ticker and the         *)
(* monitor loop's ticker both have period CheckInterval; the instant 0 is  *)
(* the first firing of the tickers.  A tick that has fired is handled      *)
(* before the clock moves on (handling a tick takes far less than a        *)
(* second), but the order of the tracker's and the monitor's handling      *)
(* within one instant is free, as is the timing of the 60 s batch ticker   *)
(* relative to them.                                                       *)
(***************************************************************************)
EXTENDS Integers, Sequences, FiniteSets, TLC

\* ------------------------------------------------------------------ bounds
\* Last instant of the clock when the whole service runs.
MaxTime == 2
\* Last instant of the clock when the tracker runs alone.
MaxTrackerTime == 4
\* Storage transactions that may fail in one run.
MaxFails == 1
\* Pending entries the buffer may hold when it is driven without the tracker.
MaxBuffer == 2
\* Seconds of session durations handed over when the buffer is driven
\* without the tracker.
MaxLoad == 150
\* Last instant of the clock when the calls of NewService, Start and Stop are
\* followed from before construction.
MaxLifeTime == 1

\* ------------------------------------------------------- program constants
\* Monitor.ActivityWindow, default 5 minutes, in seconds.
ActivityWindow == 300
\* Seconds in a calendar day (StartTime.Format("2006-01-02")).
SecondsPerDay == 86400

\* Monitor.CheckInterval, default 1 second.
DefaultCheckInterval == 1
\* Monitor.CheckInterval values (seconds) the configuration may hold.
CheckIntervals == {1, 2}
\* Monitor.ActivityWindow values (seconds) the configuration may hold.
ActivityWindows == {300, 301}
\* Idle durations the idle probe may report, around the threshold.
IdleTimes == {0, 300, 301}
\* Foreground windows the window probe may report.
Windows ==
    { [app |-> "Editor", title |-> "a"],
      [app |-> "Editor", title |-> "b"],
      [app |-> "Browser", title |-> "a"] }

\* A nil *Session.
NoSession == [app |-> "", title |-> "", start |-> -1, end |-> -1, dur |-> 0]
\* The window of a probe that failed or was not reached.
NoWindow == [app |-> "", title |-> ""]
\* No tick in progress.
NoSample ==
    [lockErr |-> FALSE, locked |-> FALSE, idleErr |-> FALSE, idle |-> -1,
     winErr |-> FALSE, win |-> NoWindow]

\* What the three probes return in one tick.  tick() calls them in the order
\* lock, idle, window and returns early, so a probe that is not reached has
\* no result.
Samples ==
    { [NoSample EXCEPT !.lockErr = TRUE] }
    \cup { [NoSample EXCEPT !.locked = TRUE] }
    \cup { [NoSample EXCEPT !.idleErr = TRUE] }
    \cup { [NoSample EXCEPT !.idle = i] : i \in {j \in IdleTimes : ~(j < ActivityWindow)} }
    \cup { [NoSample EXCEPT !.idle = i, !.winErr = TRUE] :
              i \in {j \in IdleTimes : j < ActivityWindow} }
    \cup { [NoSample EXCEPT !.idle = i, !.win = w] :
              i \in {j \in IdleTimes : j < ActivityWindow}, w \in Windows }

\* What the three probes would return at one instant, reached or not: the
\* lock state, the idle time and the foreground window each have a value or
\* an error whether or not tick() gets to ask for it.
Readings ==
    [lockErr : BOOLEAN, locked : BOOLEAN, idleErr : BOOLEAN, idle : IdleTimes,
     winErr : BOOLEAN, win : Windows]

\* Copies of the open session that GetCurrentSession may hand to
\* bufferSession when the buffer is driven without the tracker: a session
\* of 30 s, the same session extended to 45 s, a session of the same window
\* that starts where the first ends, one of the next day, and one of
\* another application.
SnapshotInputs ==
    { [app |-> "Editor", title |-> "a", start |-> 0, end |-> 30, dur |-> 30],
      [app |-> "Editor", title |-> "a", start |-> 0, end |-> 45, dur |-> 45],
      [app |-> "Editor", title |-> "a", start |-> 30, end |-> 75, dur |-> 45],
      [app |-> "Editor", title |-> "a", start |-> SecondsPerDay,
       end |-> SecondsPerDay + 30, dur |-> 30],
      [app |-> "Browser", title |-> "a", start |-> 0, end |-> 30, dur |-> 30] }

Flushers == {"loop", "stop"}
\* The callers of flushSessions, the service manager's Stop included.
AllFlushers == Flushers \cup {"manager"}

VARIABLES
    now,            \* time.Now(), seconds
    checkInterval,  \* Tracker.checkInterval = config.Monitor.CheckInterval:
    checkDivisor,   \*   the interval is checkInterval / checkDivisor seconds
    life,           \* the *Service: "none", "failed", "new" or "started"
    lastErr,        \* the error last returned by NewService, Start or Stop
    pidFile,        \* the PID file exists and names this process
    spc2,           \* program.Stop's call of Service.Stop: its position
    cfgFile,        \* the configuration file config.Load finds
    cfg,            \* the *core.Config config.Load returned
    pidOwner,       \* the process the PID file names, "none" without a file
    ppc,            \* each process that reads the PID file: where it is, and
                    \*   the PID it has read
    activityWindow, \* Timer.activityWindow = config.Monitor.ActivityWindow
    \* core.Tracker
    session,        \* Tracker.session (NoSession: nil)
    trunning,       \* Tracker.running
    stopChan,       \* TRUE once Tracker.stopChan is closed
    timerActive,    \* Timer.isActive
    tpc,            \* trackLoop: "wait" (in select), "tick" (in tick()), "exit"
    tNext,          \* next firing of trackLoop's ticker: the second,
    tFrac,          \*   and the checkDivisor-ths of a second after it
    sample,         \* the probes' results of the tick in progress
    event,          \* the tracker's last session transition (its log line)
    ended,          \* the session last finalized (EndTime set, then dropped)
    activeRun,      \* active same-window ticks in a row since NoSession
    \* service.Service
    running,        \* Service.running
    cancelled,      \* TRUE once Service.cancel() was called (ctx.Done)
    sessionBuffer,  \* Service.sessionBuffer
    bevent,         \* what the last bufferSession did: "updated" or "added"
    mpc,            \* monitorLoop: "off", "wait", "got" (holds a snapshot), "exit"
    mNext,          \* next firing of monitorLoop's ticker
    msnap,          \* currentSession of monitorLoop
    bpc,            \* batchWriteLoop: "off", "wait", "flush", "exit"
    fpc,            \* flushSessions per caller: "idle", "insert", "daily"
    fbatch,         \* flushSessions' local copy `sessions`, per caller
    fres,           \* flushSessions' last result, per caller
    spc,            \* Service.Stop's position
    \* storage.DB and platform detector
    dbSessions,     \* table sessions
    dbDaily,        \* table daily_stats: <<app, date>> -> total_seconds
    dbOpen,         \* FALSE once DB.Close() was called
    detOpen,        \* FALSE once ClosePlatformDetector() was called
    fails           \* storage transactions that have failed

trackerVars == <<session, trunning, stopChan, timerActive, tpc, tNext, tFrac, sample,
                 event, ended, activeRun>>
monitorVars == <<mpc, mNext, msnap>>
flushVars == <<bpc, fpc, fbatch, fres>>
dbVars == <<dbSessions, dbDaily, dbOpen, fails>>
lifeVars == <<life, lastErr, spc2>>
extraVars == <<cfgFile, cfg, pidOwner, ppc>>
configVars == <<now, checkInterval, checkDivisor, extraVars, activityWindow>>
vars == <<now, checkInterval, checkDivisor, extraVars, lifeVars, pidFile, activityWindow, trackerVars, running, cancelled, sessionBuffer, bevent,
          monitorVars, flushVars, spc, dbVars, detOpen>>

\* ------------------------------------------------------------- core.Timer
\* A Timer that counts an idle time equal to the window as active.
TimerUpdateInclusive(idleTime) == idleTime <= activityWindow

\* Timer.Update followed by Timer.IsActive: isActive is overwritten, true
\* when idleTime < t.activityWindow and false otherwise.
TimerUpdate(idleTime) == idleTime < activityWindow

\* ------------------------------------------------------------ config.Load
\* Monitor.IdleTimeout, default 10 minutes.
DefaultIdleTimeout == 600
\* What config.Load may find at the path: no file, a file that is not YAML,
\* or a file with the monitor durations (seconds; 0: omitted or zero).
ConfigFiles ==
    [kind : {"missing", "bad"}, check : {0}, window : {0}, idle : {0}]
    \cup [kind : {"yaml"}, check : {0, 1, 2}, window : {0, 300, 301},
          idle : {0, 600, 601}]
\* No configuration: Load returned nil, or has not run.
NoConfig == [check |-> 0, window |-> 0, idle |-> 0]

getDefaultConfig ==
    [check |-> DefaultCheckInterval, window |-> ActivityWindow,
     idle |-> DefaultIdleTimeout]

\* A validation that sets no default.
validateKeepsZero(c) == c

\* validateAndSetDefaults: a zero duration becomes its default.
validateAndSetDefaults(c) ==
    [check |-> IF c.check = 0 THEN DefaultCheckInterval ELSE c.check,
     window |-> IF c.window = 0 THEN ActivityWindow ELSE c.window,
     idle |-> IF c.idle = 0 THEN DefaultIdleTimeout ELSE c.idle]

\* yaml.Unmarshal into a zero core.Config: the fields the file gives.
Unmarshal(f) == [check |-> f.check, window |-> f.window, idle |-> f.idle]

\* config.Load: the configuration returned, NoConfig with an error.
LoadFile(f) ==
    IF f.kind = "missing" THEN getDefaultConfig
    ELSE IF f.kind = "bad" THEN NoConfig
    ELSE validateAndSetDefaults(Unmarshal(f))

\* Processes that may run CheckAndLockPIDFile.
Procs == {"A", "B"}
\* The process IDs the system hands out, and the 0 that is none of them.
Pids == {1, 2, 3}
NoPid == 0
\* The process that runs `actimed stop`.
StopCmd == "stop"
\* The processes that read the PID file.
PidProcs == Procs \cup {StopCmd}

\* ----------------------------------------------------------- core.Tracker
\* &Session{AppName, WindowTitle, StartTime: now, EndTime: now}
NewSession(w, t) ==
    [app |-> w.app, title |-> w.title, start |-> t, end |-> t, dur |-> 0]

\* A finalization that leaves EndTime at the last extension.
FinalizeKeepEnd(s, t) == s

\* t.session.EndTime = now, on the session about to be dropped
Finalize(s, t) == [s EXCEPT !.end = t]

\* An update that keeps the open session whatever the window is.
updateSessionKeep(s, w, t) ==
    IF s = NoSession THEN NewSession(w, t)
    ELSE [s EXCEPT !.end = t, !.dur = @ + 1]

\* An extension that moves EndTime and forgets the duration.
ExtendNoCount(s, t) == [s EXCEPT !.end = t]

\* t.session.EndTime = now; t.session.DurationSeconds++
Extend(s, t) == [s EXCEPT !.end = t, !.dur = @ + 1]

SameWindow(s, w) == s.app = w.app /\ s.title = w.title

\* Tracker.updateSession: the session after the call
updateSession(s, w, t) ==
    IF s = NoSession THEN NewSession(w, t)
    ELSE IF ~SameWindow(s, w) THEN NewSession(w, t)
    ELSE Extend(s, t)

\* A tick that asks for the idle time and the window before the lock state.
DecideLockLast(s) ==
    IF s.lockErr THEN "skip"
    ELSE IF s.idleErr THEN "skip"
    ELSE IF ~TimerUpdate(s.idle) THEN "pause"
    ELSE IF s.winErr THEN "skip"
    ELSE IF s.locked THEN "pause"
    ELSE "update"

\* A tick that leaves the session alone when the system is idle.
DecideIdleSkips(s) ==
    IF s.lockErr THEN "skip"
    ELSE IF s.locked THEN "pause"
    ELSE IF s.idleErr THEN "skip"
    ELSE IF ~TimerUpdate(s.idle) THEN "skip"
    ELSE IF s.winErr THEN "skip"
    ELSE "update"

\* A tick that pauses the session when a probe fails.
DecideErrorPauses(s) ==
    IF s.lockErr THEN "pause"
    ELSE IF s.locked THEN "pause"
    ELSE IF s.idleErr THEN "pause"
    ELSE IF ~TimerUpdate(s.idle) THEN "pause"
    ELSE IF s.winErr THEN "pause"
    ELSE "update"

\* What tick() does with the probes' results: "skip" (a probe failed),
\* "pause" (locked or idle) or "update".
Decide(s) ==
    IF s.lockErr THEN "skip"
    ELSE IF s.locked THEN "pause"
    ELSE IF s.idleErr THEN "skip"
    ELSE IF ~TimerUpdate(s.idle) THEN "pause"
    ELSE IF s.winErr THEN "skip"
    ELSE "update"

\* The next firing of trackLoop's ticker, checkInterval / checkDivisor
\* seconds after the one taken: its second, and the fraction left over.
TickerNext == tNext + (tFrac + checkInterval) \div checkDivisor
TickerFrac == (tFrac + checkInterval) % checkDivisor

\* trackLoop's select takes the ticker case and tick() queries the probes.
TickFire(s) ==
    /\ spc # "done"
    /\ tpc = "wait"
    /\ now = tNext
    /\ tpc' = "tick"
    /\ sample' = s
    /\ tNext' = TickerNext
    /\ tFrac' = TickerFrac
    /\ UNCHANGED <<now, checkInterval, checkDivisor, extraVars, lifeVars, pidFile, activityWindow, session, trunning, stopChan, timerActive,
                   event, ended, activeRun, running, cancelled, sessionBuffer, bevent,
                   monitorVars, flushVars, spc, dbVars, detOpen>>

\* The body of tick() on the probes' results s: Timer.Update, then
\* pauseSession or updateSession under sessionMutex.
ApplySample(s) ==
    /\ timerActive' =
          IF s.lockErr \/ s.locked \/ s.idleErr
          THEN timerActive ELSE TimerUpdate(s.idle)
    /\ LET d == Decide(s) IN
       CASE d = "skip" ->
              /\ activeRun' = 0
              /\ UNCHANGED <<session, event, ended>>
         [] d = "pause" ->
              /\ activeRun' = 0
              /\ IF session # NoSession
                 THEN /\ ended' = Finalize(session, now)
                      /\ session' = NoSession
                      /\ event' = "paused"
                 ELSE UNCHANGED <<session, event, ended>>
         [] d = "update" ->
              /\ session' = updateSession(session, s.win, now)
              /\ IF session = NoSession
                 THEN /\ event' = "started"
                      /\ activeRun' = 1
                      /\ UNCHANGED ended
                 ELSE IF ~SameWindow(session, s.win)
                 THEN /\ event' = "switched"
                      /\ ended' = Finalize(session, now)
                      /\ activeRun' = 0
                 ELSE /\ event' = "extended"
                      /\ activeRun' = IF activeRun > 0 THEN activeRun + 1 ELSE 0
                      /\ UNCHANGED ended

\* tick() once the probes have returned.
TickApply ==
    /\ spc # "done"
    /\ tpc = "tick"
    /\ tpc' = "wait"
    /\ sample' = NoSample
    /\ ApplySample(sample)
    /\ UNCHANGED <<now, checkInterval, checkDivisor, extraVars, lifeVars, pidFile, activityWindow, trunning, stopChan, tNext, tFrac, running,
                   cancelled, sessionBuffer, bevent, monitorVars, flushVars, spc,
                   dbVars, detOpen>>

\* trackLoop's select takes the stopChan case.
TrackerExit ==
    /\ spc # "done"
    /\ tpc = "wait"
    /\ stopChan
    /\ tpc' = "exit"
    /\ UNCHANGED <<now, checkInterval, checkDivisor, extraVars, lifeVars, pidFile, activityWindow, session, trunning, stopChan, timerActive,
                   tNext, tFrac, sample, event, ended, activeRun, running, cancelled,
                   sessionBuffer, bevent, monitorVars, flushVars, spc, dbVars, detOpen>>

\* -------------------------------------------------------- service.Service
\* The index of the first buffered entry bufferSession replaces, 0 if none:
\* same AppName and WindowTitle, and EndTime equal to the new StartTime.
RECURSIVE MergeIndex(_, _, _)
MergeIndex(buf, s, i) ==
    IF i > Len(buf) THEN 0
    ELSE IF /\ buf[i].app = s.app
            /\ buf[i].title = s.title
            /\ buf[i].end = s.start
         THEN i
         ELSE MergeIndex(buf, s, i + 1)

\* A bufferSession that moves the end of the entry it finds and keeps the
\* rest of it.
bufferSessionPatch(buf, s) ==
    IF MergeIndex(buf, s, 1) > 0
    THEN [buf EXCEPT ![MergeIndex(buf, s, 1)].end = s.end]
    ELSE Append(buf, s)

\* A bufferSession that never updates an entry.
bufferSessionAppend(buf, s) == Append(buf, s)

\* Service.bufferSession: the buffer after the call
bufferSession(buf, s) ==
    LET i == MergeIndex(buf, s, 1) IN
    IF i > 0 THEN [buf EXCEPT ![i] = s] ELSE Append(buf, s)

\* monitorLoop's select takes the ticker case: GetCurrentSession().
MonitorFire ==
    /\ spc # "done"
    /\ mpc = "wait"
    /\ now = mNext
    /\ mNext' = mNext + checkInterval
    /\ IF session # NoSession
       THEN mpc' = "got" /\ msnap' = session
       ELSE UNCHANGED <<mpc, msnap>>
    /\ UNCHANGED <<now, checkInterval, checkDivisor, extraVars, lifeVars, pidFile, activityWindow, trackerVars, running, cancelled,
                   sessionBuffer, bevent, flushVars, spc, dbVars, detOpen>>

\* monitorLoop: s.bufferSession(currentSession)
MonitorBuffer ==
    /\ spc # "done"
    /\ mpc = "got"
    /\ sessionBuffer' = bufferSession(sessionBuffer, msnap)
    /\ bevent' = IF MergeIndex(sessionBuffer, msnap, 1) > 0
                 THEN "updated" ELSE "added"
    /\ mpc' = "wait"
    /\ msnap' = NoSession
    /\ UNCHANGED <<now, checkInterval, checkDivisor, extraVars, lifeVars, pidFile, activityWindow, trackerVars, running, cancelled, mNext,
                   flushVars, spc, dbVars, detOpen>>

\* monitorLoop's select takes the ctx.Done case.
MonitorExit ==
    /\ spc # "done"
    /\ mpc = "wait"
    /\ cancelled
    /\ mpc' = "exit"
    /\ UNCHANGED <<now, checkInterval, checkDivisor, extraVars, lifeVars, pidFile, activityWindow, trackerVars, running, cancelled,
                   sessionBuffer, bevent, mNext, msnap, flushVars, spc, dbVars, detOpen>>

\* --------------------------------------------------------------- storage.DB
SameKey(r, s) == r.app = s.app /\ r.title = s.title /\ r.start = s.start

\* A plain INSERT into a table without the UNIQUE constraint.
InsertPlain(rows, s) == rows \cup {s}

\* DB.InsertSession: a plain INSERT, which UNIQUE(app_name, window_title,
\* start_time) rejects when the key has a row, leaving the table as it was.
InsertSession(rows, s) ==
    IF \E r \in rows : SameKey(r, s) THEN rows ELSE rows \cup {s}

\* INSERT OR REPLACE INTO sessions, UNIQUE(app_name, window_title, start_time)
InsertOrReplace(rows, s) == {r \in rows : ~SameKey(r, s)} \cup {s}

\* The statements of BatchInsertSessions' transaction, in order.
RECURSIVE BatchInsertSessions(_, _)
BatchInsertSessions(rows, sessions) ==
    IF sessions = <<>> THEN rows
    ELSE BatchInsertSessions(InsertOrReplace(rows, Head(sessions)), Tail(sessions))

\* session.StartTime.Format("2006-01-02"): the calendar day, as a day number
DateOf(t) == t \div SecondsPerDay

\* The text of a daily_stats.date written by UpdateDailyStatsBatch,
\* StartTime.Format("2006-01-02"): the date and nothing after it.  A text is
\* modelled by its fields in order, most significant first.
DateText(d) == <<d>>
\* The text a time.Time argument of a query is bound as.  The driver
\* (modernc.org/sqlite) binds it as Time.String(), "2006-01-02 15:04:05
\* -0700 MST": the date, then the clock.
TimeText(t) == <<t \div SecondsPerDay, t % SecondsPerDay>>

\* An upsert that overwrites the total instead of adding to it.
UpsertDailyOverwrite(daily, app, date, seconds) ==
    LET k == <<app, date>> IN
    [x \in DOMAIN daily \cup {k} |-> IF x = k THEN seconds ELSE daily[x]]

\* An upsert that takes the seconds off the total.
UpsertDailySubtract(daily, app, date, seconds) ==
    LET k == <<app, date>> IN
    [x \in DOMAIN daily \cup {k} |->
        IF x = k THEN (IF k \in DOMAIN daily THEN daily[k] ELSE 0) - seconds
        ELSE daily[x]]

\* INSERT INTO daily_stats ... ON CONFLICT(app_name, date)
\*   DO UPDATE SET total_seconds = total_seconds + ?
\* for the row k: the application, then the fields of the date text.
UpsertDailyAt(daily, k, seconds) ==
    IF k \in DOMAIN daily
    THEN [daily EXCEPT ![k] = @ + seconds]
    ELSE [x \in DOMAIN daily \cup {k} |-> IF x = k THEN seconds ELSE daily[x]]

\* The upsert of UpdateDailyStatsBatch, whose date is the text
\* StartTime.Format("2006-01-02"): the day and nothing after it.
UpsertDaily(daily, app, date, seconds) ==
    UpsertDailyAt(daily, <<app>> \o DateText(date), seconds)

\* A batch update that stops after its first session.
UpdateDailyStatsHead(daily, sessions) ==
    IF sessions = <<>> THEN daily
    ELSE LET s == Head(sessions) IN
         UpsertDaily(daily, s.app, DateOf(s.start), s.dur)

\* The statements of UpdateDailyStatsBatch's transaction, in order.
RECURSIVE UpdateDailyStatsBatch(_, _)
UpdateDailyStatsBatch(daily, sessions) ==
    IF sessions = <<>> THEN daily
    ELSE LET s == Head(sessions) IN
         UpdateDailyStatsBatch(UpsertDaily(daily, s.app, DateOf(s.start), s.dur),
                               Tail(sessions))

\* ---------------------------------------------------- DB.GetDailyStats
\* The zero time.Time: StatsQuery.StartDate / EndDate not set.
NoTime == -1
\* StartDate / EndDate values of a StatsQuery: not set, or midnight of the
\* first or of the second day.
QueryTimes == {NoTime, 0, SecondsPerDay}
\* The StatsQuery values asked.
Queries ==
    [app : {"", "Editor"}, start : QueryTimes, end : QueryTimes, limit : {0, 1}]

\* SQLite's comparison a <= b of two texts: the first differing field
\* decides, and a text that is the beginning of another is the smaller.
RECURSIVE TextLE(_, _)
TextLE(a, b) ==
    IF a = <<>> THEN TRUE
    ELSE IF b = <<>> THEN FALSE
    ELSE IF Head(a) # Head(b) THEN Head(a) < Head(b)
    ELSE TextLE(Tail(a), Tail(b))

\* DB.UpdateDailyStats(appName, date, seconds): the same upsert with the
\* time.Time bound as the date, which the driver writes as the date and the
\* clock.
UpdateDailyStats(daily, app, t, seconds) ==
    UpsertDailyAt(daily, <<app>> \o TimeText(t), seconds)

\* The rows of daily_stats: the application, the date text and the total.
StatsRows(daily) ==
    {[app |-> k[1], date |-> Tail(k), total |-> daily[k]] : k \in DOMAIN daily}

\* The WHERE clause GetDailyStats builds for q.
StatsWhere(r, q) ==
    /\ q.start # NoTime => TextLE(TimeText(q.start), r.date)
    /\ q.end # NoTime => TextLE(r.date, TimeText(q.end))
    /\ q.app # "" => r.app = q.app

\* ORDER BY date DESC: the orders SQLite may return the rows in.  Rows of
\* one date come in any order.
RECURSIVE OrderByDateDesc(_)
OrderByDateDesc(rows) ==
    IF rows = {} THEN {<<>>}
    ELSE UNION { {<<r>> \o rest : rest \in OrderByDateDesc(rows \ {r})} :
                 r \in {x \in rows : \A y \in rows : TextLE(y.date, x.date)} }

\* LIMIT ?, when the query has a limit.
Limit(sorted, q) ==
    IF q.limit > 0 /\ q.limit < Len(sorted)
    THEN SubSeq(sorted, 1, q.limit)
    ELSE sorted

\* DB.GetDailyStats: the results the query q may return.  GROUP BY app_name,
\* date leaves each row of daily_stats as it is (the pair is unique).
GetDailyStats(daily, q) ==
    {Limit(sorted, q) :
        sorted \in OrderByDateDesc({r \in StatsRows(daily) : StatsWhere(r, q)})}

\* ------------------------------------------------- Service.flushSessions
\* A drain that copies the buffer and does not clear it.
DrainKeep(f) ==
    /\ fpc[f] = "idle"
    /\ fbatch' = [fbatch EXCEPT ![f] = sessionBuffer]
    /\ IF sessionBuffer = <<>>
       THEN /\ fres' = [fres EXCEPT ![f] = "ok"]
            /\ UNCHANGED fpc
       ELSE /\ fres' = [fres EXCEPT ![f] = "none"]
            /\ fpc' = [fpc EXCEPT ![f] = "insert"]
    /\ UNCHANGED <<sessionBuffer, bevent>>

\* The first part of flushSessions, under sessionMutex: copy and clear the
\* buffer; an empty copy returns nil at once.
Drain(f) ==
    /\ fpc[f] = "idle"
    /\ sessionBuffer' = <<>>
    /\ fbatch' = [fbatch EXCEPT ![f] = sessionBuffer]
    /\ UNCHANGED bevent
    /\ IF sessionBuffer = <<>>
       THEN /\ fres' = [fres EXCEPT ![f] = "ok"]
            /\ UNCHANGED fpc
       ELSE /\ fres' = [fres EXCEPT ![f] = "none"]
            /\ fpc' = [fpc EXCEPT ![f] = "insert"]

\* s.db.BatchInsertSessions(sessions): one transaction, which commits (ok)
\* or fails and changes nothing.  On a closed database it fails.
FlushInsert(f, ok) ==
    /\ spc # "done"
    /\ fpc[f] = "insert"
    /\ (ok \/ fails < MaxFails)
    /\ IF ok /\ dbOpen
       THEN /\ dbSessions' = BatchInsertSessions(dbSessions, fbatch[f])
            /\ fpc' = [fpc EXCEPT ![f] = "daily"]
            /\ UNCHANGED <<fres, fails, bpc>>
       ELSE /\ fpc' = [fpc EXCEPT ![f] = "idle"]
            /\ fres' = [fres EXCEPT ![f] = "errInsert"]
            /\ fails' = fails + 1
            /\ bpc' = IF f = "loop" THEN "wait" ELSE bpc
            /\ UNCHANGED dbSessions
    /\ UNCHANGED <<now, checkInterval, checkDivisor, extraVars, lifeVars, pidFile, activityWindow, trackerVars, running, cancelled,
                   sessionBuffer, bevent, monitorVars, fbatch, spc, dbDaily, dbOpen,
                   detOpen>>

\* s.db.UpdateDailyStatsBatch(sessions): a second transaction.
FlushDaily(f, ok) ==
    /\ spc # "done"
    /\ fpc[f] = "daily"
    /\ fpc' = [fpc EXCEPT ![f] = "idle"]
    /\ bpc' = IF f = "loop" THEN "wait" ELSE bpc
    /\ (ok \/ fails < MaxFails)
    /\ IF ok /\ dbOpen
       THEN /\ dbDaily' = UpdateDailyStatsBatch(dbDaily, fbatch[f])
            /\ fres' = [fres EXCEPT ![f] = "ok"]
            /\ fbatch' = [fbatch EXCEPT ![f] = <<>>]
            /\ UNCHANGED fails
       ELSE /\ fres' = [fres EXCEPT ![f] = "errDaily"]
            /\ fails' = fails + 1
            /\ UNCHANGED <<dbDaily, fbatch>>
    /\ UNCHANGED <<now, checkInterval, checkDivisor, extraVars, lifeVars, pidFile, activityWindow, trackerVars, running, cancelled,
                   sessionBuffer, bevent, monitorVars, spc, dbSessions, dbOpen,
                   detOpen>>

\* ------------------------------------------------- Service.batchWriteLoop
\* batchWriteLoop's select takes the ticker case and calls flushSessions.
\* The ticker's period is 60 s, many sampling ticks; its firing is left free
\* relative to the sampling clock.  A tick delivered before
\* batchTicker.Stop() can still be taken after it.
LoopFlush ==
    /\ spc # "done"
    /\ bpc = "wait"
    /\ Drain("loop")
    /\ bpc' = IF sessionBuffer = <<>> THEN "wait" ELSE "flush"
    /\ UNCHANGED <<now, checkInterval, checkDivisor, extraVars, lifeVars, pidFile, activityWindow, trackerVars, running, cancelled,
                   monitorVars, spc, dbVars, detOpen>>

\* batchWriteLoop's select takes the ctx.Done case.
LoopExit ==
    /\ spc # "done"
    /\ bpc = "wait"
    /\ cancelled
    /\ bpc' = "exit"
    /\ UNCHANGED <<now, checkInterval, checkDivisor, extraVars, lifeVars, pidFile, activityWindow, trackerVars, running, cancelled,
                   sessionBuffer, bevent, monitorVars, fpc, fbatch, fres, spc, dbVars,
                   detOpen>>

\* ------------------------------------------------------------ Service.Stop
\* s.running = false; s.cancel()
StopBegin ==
    /\ spc = "run"
    /\ running
    /\ running' = FALSE
    /\ cancelled' = TRUE
    /\ spc' = "cancelled"
    /\ UNCHANGED <<now, checkInterval, checkDivisor, extraVars, lifeVars, pidFile, activityWindow, trackerVars, sessionBuffer, bevent, monitorVars,
                   flushVars, dbVars, detOpen>>

\* s.tracker.Stop(), its first statement: if !t.running { return "tracker is
\* not running" }, an error that Service.Stop logs before it goes on.
\* t.running is read and written without a lock.
StopTracker ==
    /\ spc = "cancelled"
    /\ spc' = IF trunning THEN "tcheck" ELSE "tstopped"
    /\ UNCHANGED <<now, checkInterval, checkDivisor, extraVars, lifeVars, pidFile, activityWindow, trackerVars, running,
                   cancelled, sessionBuffer, bevent, monitorVars, flushVars, dbVars,
                   detOpen>>

\* Tracker.Stop: t.running = false; close(t.stopChan).  The close of a
\* channel that is closed already panics, and the panic ends the process.
StopTrackerClose ==
    /\ spc = "tcheck"
    /\ trunning' = FALSE
    /\ IF stopChan
       THEN /\ life' = "panicked"
            /\ spc' = "done"
            /\ UNCHANGED stopChan
       ELSE /\ stopChan' = TRUE
            /\ spc' = "tclosed"
            /\ UNCHANGED life
    /\ UNCHANGED <<now, checkInterval, checkDivisor, extraVars, lastErr, spc2, pidFile, activityWindow, session, timerActive, tpc, tNext,
                   tFrac, sample, event, ended, activeRun, running,
                   cancelled, sessionBuffer, bevent, monitorVars, flushVars, dbVars,
                   detOpen>>

\* Tracker.Stop once it holds sessionMutex: the open session is finalized
\* and dropped, and Stop returns.
StopTrackerEnd ==
    /\ spc = "tclosed"
    /\ spc' = "tstopped"
    /\ activeRun' = 0
    /\ IF session # NoSession
       THEN /\ ended' = Finalize(session, now)
            /\ session' = NoSession
            /\ event' = "stopped"
       ELSE UNCHANGED <<session, event, ended>>
    /\ UNCHANGED <<now, checkInterval, checkDivisor, extraVars, lifeVars, pidFile, activityWindow, trunning, stopChan, timerActive, tpc, tNext,
                   tFrac, sample, running,
                   cancelled, sessionBuffer, bevent, monitorVars, flushVars, dbVars,
                   detOpen>>

\* A Stop that goes on to the closes without its flush.
StopFlushSkipped ==
    /\ spc = "tstopped"
    /\ spc' = "flush"
    /\ UNCHANGED <<now, checkInterval, checkDivisor, extraVars, lifeVars, pidFile,
                   activityWindow, trackerVars, running, cancelled,
                   sessionBuffer, bevent, monitorVars, flushVars, dbVars,
                   detOpen>>

\* s.batchTicker.Stop(), then the first part of s.flushSessions()
StopFlush ==
    /\ spc = "tstopped"
    /\ spc' = "flush"
    /\ Drain("stop")
    /\ UNCHANGED <<now, checkInterval, checkDivisor, extraVars, lifeVars, pidFile, activityWindow, trackerVars, running, cancelled,
                   monitorVars, bpc, dbVars, detOpen>>

\* flushSessions has returned; platform.ClosePlatformDetector()
StopCloseDetector ==
    /\ spc = "flush"
    /\ fpc["stop"] = "idle"
    /\ spc' = "detclosed"
    /\ detOpen' = FALSE
    /\ UNCHANGED <<now, checkInterval, checkDivisor, extraVars, lifeVars, pidFile, activityWindow, trackerVars, running, cancelled,
                   sessionBuffer, bevent, monitorVars, flushVars, dbVars>>

\* s.db.Close()
StopCloseDB ==
    /\ spc = "detclosed"
    /\ spc' = "dbclosed"
    /\ dbOpen' = FALSE
    /\ UNCHANGED <<now, checkInterval, checkDivisor, extraVars, lifeVars, pidFile, activityWindow, trackerVars, running, cancelled,
                   sessionBuffer, bevent, monitorVars, flushVars, dbSessions, dbDaily,
                   fails, detOpen>>

\* logger.Close(), RemovePIDFile, and Stop returns: the process ends, and
\* with it every goroutine.
StopReturn ==
    /\ spc = "dbclosed"
    /\ spc' = "done"
    /\ pidFile' = FALSE
    /\ UNCHANGED <<now, checkInterval, checkDivisor, extraVars, lifeVars, activityWindow, trackerVars, running, cancelled,
                   sessionBuffer, bevent, monitorVars, flushVars, dbVars, detOpen>>

\* ------------------------------------------------------------------ clock
\* A goroutine whose select has a ready case takes it, and handles it,
\* before the clock moves on.
\* trackLoop is blocked in its select, or has exited.
TrackerSettled == tpc # "tick" /\ (tpc = "wait" => tNext > now /\ ~stopChan)
\* monitorLoop is blocked in its select, or has exited.
MonitorSettled == mpc # "got" /\ (mpc = "wait" => mNext > now /\ ~cancelled)
\* batchWriteLoop is blocked in its select, in a flush, or has exited.
BatchLoopSettled == bpc = "wait" => ~cancelled

\* A second passes.
Advance ==
    /\ spc # "done"
    /\ now < MaxTime
    /\ TrackerSettled
    /\ MonitorSettled
    /\ BatchLoopSettled
    /\ now' = now + 1
    /\ UNCHANGED <<checkInterval, checkDivisor, extraVars, lifeVars, pidFile, activityWindow, trackerVars, running, cancelled, sessionBuffer, bevent,
                   monitorVars, flushVars, spc, dbVars, detOpen>>

\* A second passes, the tracker running alone.
AdvanceTracker ==
    /\ now < MaxTrackerTime
    /\ TrackerSettled
    /\ now' = now + 1
    /\ UNCHANGED <<checkInterval, checkDivisor, extraVars, lifeVars, pidFile, activityWindow, trackerVars, running, cancelled, sessionBuffer, bevent,
                   monitorVars, flushVars, spc, dbVars, detOpen>>

\* The service after NewService and Start, with the check interval c / d
\* seconds and the activity window w.
StartedCadence(c, d, w) ==
    /\ now = 0
    /\ checkInterval = c
    /\ checkDivisor = d
    /\ cfgFile = [kind |-> "yaml", check |-> c, window |-> w, idle |-> 0]
    /\ cfg = validateAndSetDefaults(Unmarshal(cfgFile))
    /\ pidOwner = 1
    /\ ppc = [p \in PidProcs |->
                 IF p = "A" THEN [at |-> "locked", saw |-> NoPid, pid |-> 1]
                 ELSE [at |-> "idle", saw |-> NoPid, pid |-> NoPid]]
    /\ life = "started"
    /\ lastErr = "none"
    /\ spc2 = "idle"
    /\ pidFile = TRUE
    /\ activityWindow = w
    /\ session = NoSession
    /\ trunning = TRUE
    /\ stopChan = FALSE
    /\ timerActive = TRUE
    /\ tpc = "wait"
    /\ tNext = 0
    /\ tFrac = 0
    /\ sample = NoSample
    /\ event = "none"
    /\ ended = NoSession
    /\ activeRun = 0
    /\ running = TRUE
    /\ cancelled = FALSE
    /\ sessionBuffer = <<>>
    /\ bevent = "none"
    /\ mpc = "wait"
    /\ mNext = 0
    /\ msnap = NoSession
    /\ bpc = "wait"
    /\ fpc = [f \in AllFlushers |-> "idle"]
    /\ fbatch = [f \in AllFlushers |-> <<>>]
    /\ fres = [f \in AllFlushers |-> "none"]
    /\ spc = "run"
    /\ dbSessions = {}
    /\ dbDaily = << >>
    /\ dbOpen = TRUE
    /\ detOpen = TRUE
    /\ fails = 0

\* The service after NewService and Start, with a check interval of c whole
\* seconds and the activity window w.
StartedWith(c, w) == StartedCadence(c, 1, w)

\* The service after NewService and Start, with the default activity window.
Started(c) == StartedWith(c, ActivityWindow)

\* The whole service at the default cadence.
Init == Started(DefaultCheckInterval)

Next ==
    \/ \E s \in Samples : TickFire(s)
    \/ TickApply
    \/ TrackerExit
    \/ MonitorFire
    \/ MonitorBuffer
    \/ MonitorExit
    \/ LoopFlush
    \/ LoopExit
    \/ \E f \in Flushers, ok \in BOOLEAN : FlushInsert(f, ok)
    \/ \E f \in Flushers, ok \in BOOLEAN : FlushDaily(f, ok)
    \/ StopBegin
    \/ StopTracker
    \/ StopTrackerClose
    \/ StopTrackerEnd
    \/ StopFlush
    \/ StopCloseDetector
    \/ StopCloseDB
    \/ StopReturn
    \/ Advance

Spec == Init /\ [][Next]_vars

\* The tracker alone, at every configured cadence and activity window, with
\* Tracker.Stop arriving at any point of a tick.
InitTracker == \E c \in CheckIntervals, w \in ActivityWindows : StartedWith(c, w)

NextTracker ==
    \/ \E s \in Readings : TickFire(s)
    \/ TickApply
    \/ TrackerExit
    \/ StopBegin
    \/ StopTracker
    \/ StopTrackerClose
    \/ StopTrackerEnd
    \/ AdvanceTracker

SpecTracker == InitTracker /\ [][NextTracker]_vars

\* Check intervals the configuration accepts, as <<seconds, divisor>>: 1 s,
\* 2 s and 500 ms (validateAndSetDefaults replaces 0 and keeps the rest).
Cadences == {<<1, 1>>, <<2, 1>>, <<1, 2>>}

\* The tracker alone at each of these check intervals.
InitCadence ==
    \E c \in Cadences : StartedCadence(c[1], c[2], ActivityWindow)

SpecCadence == InitCadence /\ [][NextTracker]_vars

\* The documented scenario at the 1 s cadence: ticks 0..4 active in
\* Editor, tick 5 idle for 301 s, tick 6 active in Browser.  The monitor
\* loop and the periodic flush run beside the tracker; storage does not fail.
Script ==
    << [NoSample EXCEPT !.idle = 0, !.win = [app |-> "Editor", title |-> "a"]],
       [NoSample EXCEPT !.idle = 0, !.win = [app |-> "Editor", title |-> "a"]],
       [NoSample EXCEPT !.idle = 0, !.win = [app |-> "Editor", title |-> "a"]],
       [NoSample EXCEPT !.idle = 0, !.win = [app |-> "Editor", title |-> "a"]],
       [NoSample EXCEPT !.idle = 0, !.win = [app |-> "Editor", title |-> "a"]],
       [NoSample EXCEPT !.idle = 301],
       [NoSample EXCEPT !.idle = 0, !.win = [app |-> "Browser", title |-> "a"]] >>

\* trackLoop takes the ticker case of this instant and the probes return
\* what the scenario says.
ScenarioTick ==
    /\ now + 1 \in DOMAIN Script
    /\ TickFire(Script[now + 1])

AdvanceScenario ==
    /\ now + 1 < Len(Script)
    /\ TrackerSettled
    /\ MonitorSettled
    /\ now' = now + 1
    /\ UNCHANGED <<checkInterval, checkDivisor, extraVars, lifeVars, pidFile, activityWindow, trackerVars, running, cancelled, sessionBuffer, bevent,
                   monitorVars, flushVars, spc, dbVars, detOpen>>

NextScenario ==
    \/ ScenarioTick
    \/ TickApply
    \/ MonitorFire
    \/ MonitorBuffer
    \/ LoopFlush
    \/ FlushInsert("loop", TRUE)
    \/ FlushDaily("loop", TRUE)
    \/ AdvanceScenario

SpecScenario == Started(DefaultCheckInterval) /\ [][NextScenario]_vars

\* The buffer and the store driven without the tracker: monitorLoop gets any
\* of SnapshotInputs from GetCurrentSession, in any order, and the periodic
\* flush writes what is pending; storage does not fail.
RECURSIVE SeqDur(_)
SeqDur(q) == IF q = <<>> THEN 0 ELSE Head(q).dur + SeqDur(Tail(q))

RECURSIVE TotalSeconds(_, _)
TotalSeconds(daily, keys) ==
    IF keys = {} THEN 0
    ELSE LET k == CHOOSE x \in keys : TRUE IN
         daily[k] + TotalSeconds(daily, keys \ {k})

\* The seconds handed over so far: stored, in a flush, or pending.
Load ==
    TotalSeconds(dbDaily, DOMAIN dbDaily) + SeqDur(fbatch["loop"])
        + SeqDur(sessionBuffer)

\* monitorLoop's select takes the ticker case and GetCurrentSession
\* returns s.
SnapshotTaken(s) ==
    /\ mpc = "wait"
    /\ Len(sessionBuffer) < MaxBuffer
    /\ Load + s.dur <= MaxLoad
    /\ mpc' = "got"
    /\ msnap' = s
    /\ UNCHANGED <<now, checkInterval, checkDivisor, extraVars, lifeVars, pidFile, activityWindow, trackerVars, running,
                   cancelled, sessionBuffer, bevent, mNext, flushVars, spc,
                   dbVars, detOpen>>

ErrInsert == "failed to insert session"

\* A call of DB.InsertSession(s): the row, or the error of the UNIQUE
\* constraint.
SessionInserted(s) ==
    /\ dbOpen
    /\ dbSessions' = InsertSession(dbSessions, s)
    /\ lastErr' = IF \E r \in dbSessions : SameKey(r, s) THEN ErrInsert ELSE "none"
    /\ UNCHANGED <<now, checkInterval, checkDivisor, extraVars, life, spc2, pidFile,
                   activityWindow, trackerVars, running, cancelled,
                   sessionBuffer, bevent, monitorVars, flushVars, spc,
                   dbDaily, dbOpen, fails, detOpen>>

\* A call of DB.UpdateDailyStats(app, t, seconds).
DailyStatsUpdated(app, t, seconds) ==
    /\ dbOpen
    /\ Load + seconds <= MaxLoad
    /\ dbDaily' = UpdateDailyStats(dbDaily, app, t, seconds)
    /\ UNCHANGED <<now, checkInterval, checkDivisor, extraVars, lifeVars, pidFile,
                   activityWindow, trackerVars, running, cancelled,
                   sessionBuffer, bevent, monitorVars, flushVars, spc,
                   dbSessions, dbOpen, fails, detOpen>>

\* The arguments of the UpdateDailyStats calls: midnight of the first day
\* and the seconds of the shortest snapshot.
StatsCalls == [app : {"Editor"}, t : {0}, seconds : {30}]

\* The sessions handed to InsertSession: two snapshots of one session.
InsertCalls == {s \in SnapshotInputs : s.app = "Editor" /\ s.start = 0}

NextBuffer ==
    \/ \E s \in InsertCalls : SessionInserted(s)
    \/ \E c \in StatsCalls : DailyStatsUpdated(c.app, c.t, c.seconds)
    \/ \E s \in SnapshotInputs : SnapshotTaken(s)
    \/ MonitorBuffer
    \/ LoopFlush
    \/ FlushInsert("loop", TRUE)
    \/ FlushDaily("loop", TRUE)

SpecBuffer == Started(DefaultCheckInterval) /\ [][NextBuffer]_vars

\* ------------------------------------------- NewService, Start, Stop calls
ErrLogger == "failed to initialize logger"
ErrDatabase == "failed to initialize database"
ErrDetector == "failed to initialize platform detector"
ErrAlreadyRunning == "service is already running"
ErrPIDLock == "failed to acquire PID lock"
ErrTracker == "failed to start tracker"
ErrNotRunning == "service is not running"

\* A process with no service: nothing opened, no goroutine, no PID file.
NoService ==
    /\ now = 0
    /\ checkDivisor = 1
    /\ lastErr = "none"
    /\ spc2 = "idle"
    /\ pidFile = FALSE
    /\ pidOwner = NoPid
    /\ ppc = [p \in PidProcs |-> [at |-> "idle", saw |-> NoPid, pid |-> NoPid]]
    /\ session = NoSession
    /\ trunning = FALSE
    /\ stopChan = FALSE
    /\ timerActive = TRUE
    /\ tpc = "off"
    /\ tNext = 0
    /\ tFrac = 0
    /\ sample = NoSample
    /\ event = "none"
    /\ ended = NoSession
    /\ activeRun = 0
    /\ running = FALSE
    /\ cancelled = FALSE
    /\ sessionBuffer = <<>>
    /\ bevent = "none"
    /\ mpc = "off"
    /\ mNext = 0
    /\ msnap = NoSession
    /\ bpc = "off"
    /\ fpc = [f \in AllFlushers |-> "idle"]
    /\ fbatch = [f \in AllFlushers |-> <<>>]
    /\ fres = [f \in AllFlushers |-> "none"]
    /\ spc = "run"
    /\ dbSessions = {}
    /\ dbDaily = << >>
    /\ dbOpen = FALSE
    /\ detOpen = FALSE
    /\ fails = 0

\* The process before config.Load, with the file f at the path.
Unloaded(f) ==
    /\ NoService
    /\ life = "unloaded"
    /\ cfgFile = f
    /\ cfg = NoConfig
    /\ checkInterval = 0
    /\ activityWindow = 0

\* The process before NewService, the default configuration loaded.
NotConstructed ==
    /\ NoService
    /\ life = "none"
    /\ cfgFile = [kind |-> "missing", check |-> 0, window |-> 0, idle |-> 0]
    /\ cfg = LoadFile(cfgFile)
    /\ checkInterval = 0
    /\ activityWindow = 0

ErrParse == "failed to parse config"

\* config.Load(path) in main: the configuration, or the error and no more.
LoadConfig ==
    /\ life = "unloaded"
    /\ cfg' = LoadFile(cfgFile)
    /\ IF cfgFile.kind = "bad"
       THEN life' = "noconfig" /\ lastErr' = ErrParse
       ELSE life' = "none" /\ UNCHANGED lastErr
    /\ UNCHANGED <<now, checkInterval, checkDivisor, activityWindow, cfgFile,
                   pidOwner, ppc, pidFile, spc2,
                   trackerVars, running, cancelled, sessionBuffer, bevent,
                   monitorVars, flushVars, spc, dbVars, detOpen>>

\* yaml.Marshal of a configuration: the file that holds its fields.
Marshal(c) == [kind |-> "yaml", check |-> c.check, window |-> c.window, idle |-> c.idle]

\* The configurations handed to config.Save: the default one, and one with
\* another activity window and the other durations zero.
SavedConfigs ==
    {getDefaultConfig, [check |-> 0, window |-> ActivityWindow + 1, idle |-> 0]}

\* config.Save(c, path): the file at the path now holds c.
SaveConfig(c) ==
    /\ cfgFile' = Marshal(c)
    /\ cfgFile' # cfgFile
    /\ UNCHANGED <<now, checkInterval, checkDivisor, activityWindow, cfg,
                   pidOwner, ppc, lifeVars, pidFile,
                   trackerVars, running, cancelled, sessionBuffer, bevent,
                   monitorVars, flushVars, spc, dbVars, detOpen>>

\* NewService: logger.Init, storage.NewDB, InitializePlatformDetector, each
\* returning the error on failure; then NewTracker with the configuration's
\* check interval and activity window, and the Service value, running false.
NewService(logOk, dbOk, detOk) ==
    /\ life = "none"
    /\ life' = IF logOk /\ dbOk /\ detOk THEN "new" ELSE "failed"
    /\ lastErr' = IF ~logOk THEN ErrLogger
                  ELSE IF ~dbOk THEN ErrDatabase
                  ELSE IF ~detOk THEN ErrDetector
                  ELSE lastErr
    /\ dbOpen' = (logOk /\ dbOk)
    /\ detOpen' = (logOk /\ dbOk /\ detOk)
    /\ checkInterval' =
          IF logOk /\ dbOk /\ detOk THEN cfg.check ELSE checkInterval
    /\ activityWindow' =
          IF logOk /\ dbOk /\ detOk THEN cfg.window ELSE activityWindow
    /\ UNCHANGED <<now, checkDivisor, extraVars, pidFile, spc2, trackerVars, running, cancelled,
                   sessionBuffer, bevent, monitorVars, flushVars, spc,
                   dbSessions, dbDaily, fails>>

\* What no call of Start changes.
StartKeeps ==
    UNCHANGED <<now, checkInterval, checkDivisor, extraVars, spc2, activityWindow, session,
                stopChan, timerActive, sample, event, ended, activeRun,
                cancelled, sessionBuffer, bevent, msnap, fpc, fbatch, fres,
                spc, dbVars, detOpen>>

\* Start returns err before anything was started.
StartFails(err) ==
    /\ lastErr' = err
    /\ UNCHANGED <<life, trunning, tpc, tNext, tFrac, running, mpc, mNext, bpc>>

\* tracker.Start (running = true; go trackLoop), s.running = true,
\* go monitorLoop, the batch ticker and go batchWriteLoop.  trackLoop and
\* monitorLoop create their tickers, which fire first one check interval
\* later.
StartLaunch ==
    /\ pidFile' = TRUE
    /\ trunning' = TRUE
    /\ tpc' = "wait"
    /\ tNext' = now + checkInterval \div checkDivisor
    /\ tFrac' = checkInterval % checkDivisor
    /\ running' = TRUE
    /\ mpc' = "wait"
    /\ mNext' = now + checkInterval
    /\ bpc' = "wait"
    /\ life' = "started"
    /\ UNCHANGED lastErr

\* A Start without the s.running check.
StartUnguarded(pidOk) ==
    /\ life \in {"new", "started"}
    /\ spc # "done"
    /\ IF ~pidOk \/ pidFile THEN StartFails(ErrPIDLock) /\ UNCHANGED pidFile
       ELSE IF trunning THEN StartFails(ErrTracker) /\ pidFile' = FALSE
       ELSE StartLaunch
    /\ StartKeeps

\* A Start that sets s.running before it takes the PID lock.
StartRunningFirst(pidOk) ==
    /\ life \in {"new", "started"}
    /\ spc # "done"
    /\ IF running THEN StartFails(ErrAlreadyRunning) /\ UNCHANGED pidFile
       ELSE IF ~pidOk \/ pidFile
       THEN /\ lastErr' = ErrPIDLock
            /\ running' = TRUE
            /\ UNCHANGED <<life, trunning, tpc, tNext, tFrac, mpc, mNext, bpc,
                           pidFile>>
       ELSE IF trunning THEN StartFails(ErrTracker) /\ pidFile' = FALSE
       ELSE StartLaunch
    /\ StartKeeps

\* Service.Start up to the wait for the signal.  pidOk: no other live
\* process is named by the PID file (CheckAndLockPIDFile also fails when
\* the file names this process).
Start(pidOk) ==
    /\ life \in {"new", "started"}
    /\ spc # "done"
    /\ IF running THEN StartFails(ErrAlreadyRunning) /\ UNCHANGED pidFile
       ELSE IF ~pidOk \/ pidFile THEN StartFails(ErrPIDLock) /\ UNCHANGED pidFile
       ELSE IF trunning THEN StartFails(ErrTracker) /\ pidFile' = FALSE
       ELSE StartLaunch
    /\ StartKeeps

\* What a rejected Stop leaves alone: everything but the error returned.
StopKeeps ==
    UNCHANGED <<now, checkInterval, checkDivisor, extraVars, life, pidFile, spc2,
                activityWindow, trackerVars, running, sessionBuffer, bevent, monitorVars,
                flushVars, spc, dbVars, detOpen>>

\* A Stop that cancels the context before it looks at s.running.
StopUnguarded ==
    /\ life \in {"new", "started"}
    /\ spc # "done"
    /\ ~running
    /\ lastErr' = ErrNotRunning
    /\ cancelled' = TRUE
    /\ StopKeeps

\* Service.Stop on a service that is not running: the error, nothing else.
StopRejected ==
    /\ life \in {"new", "started"}
    /\ spc # "done"
    /\ ~running
    /\ lastErr' = ErrNotRunning
    /\ UNCHANGED cancelled
    /\ StopKeeps

\* `actimed stop`, stopService in another process: a PID file that names no
\* live process is removed; a live daemon is killed with Process.Kill, which
\* ends it at once, whatever it was doing.  Without a PID file the command
\* only reports an error.
StopCommand ==
    /\ pidFile
    /\ IF life = "started" /\ spc # "done"
       THEN /\ life' = "killed"
            /\ spc' = "done"
            /\ UNCHANGED pidFile
       ELSE /\ pidFile' = FALSE
            /\ UNCHANGED <<life, spc>>
    /\ UNCHANGED <<configVars, lastErr, spc2, trackerVars, running, cancelled,
                   sessionBuffer, bevent, monitorVars, flushVars, dbVars,
                   detOpen>>

ErrStopFailed == "failed to stop service"

\* RunForeground after svc.Start() has returned: its own sigChan holds the
\* same signal, and it calls svc.Stop(), whose error it returns wrapped.
RunForegroundStop ==
    /\ life = "started"
    /\ spc = "done"
    /\ ~running
    /\ life' = "returned"
    /\ lastErr' = ErrStopFailed
    /\ UNCHANGED <<configVars, pidFile, spc2, trackerVars, running, cancelled,
                   sessionBuffer, bevent, monitorVars, flushVars, spc, dbVars,
                   detOpen>>

\* A second passes, before or after Start.
AdvanceLifecycle ==
    /\ now < MaxLifeTime
    /\ Advance

\* The process from before NewService: the calls with each outcome of the
\* initializations and of the PID lock, then the running service, whose
\* storage does not fail while it is open.
NextLifecycle ==
    \/ \E logOk, dbOk, detOk \in BOOLEAN : NewService(logOk, dbOk, detOk)
    \/ \E pidOk \in BOOLEAN : Start(pidOk)
    \/ StopRejected
    \/ StopCommand
    \/ RunForegroundStop
    \/ \E s \in Samples : TickFire(s)
    \/ TickApply
    \/ TrackerExit
    \/ MonitorFire
    \/ MonitorBuffer
    \/ MonitorExit
    \/ LoopFlush
    \/ LoopExit
    \/ \E f \in Flushers : FlushInsert(f, TRUE)
    \/ \E f \in Flushers : FlushDaily(f, TRUE)
    \/ StopBegin
    \/ StopTracker
    \/ StopTrackerClose
    \/ StopTrackerEnd
    \/ StopFlush
    \/ StopCloseDetector
    \/ StopCloseDB
    \/ StopReturn
    \/ AdvanceLifecycle

SpecLifecycle == NotConstructed /\ [][NextLifecycle]_vars

\* ------------------------------------- program.Stop beside Start's own Stop
\* Under the service manager the signal reaches Start's sigChan, whose
\* goroutine calls s.Stop(), and the manager, which calls program.Stop and
\* so s.Stop() again.  The steps below are the manager's call; s.running and
\* t.running are read and written without a lock, so a read and the write
\* that follows it are separate steps.

\* if !s.running { return "service is not running" }
ManagerStopCheck ==
    /\ life = "started"
    /\ spc2 = "idle"
    /\ IF running
       THEN spc2' = "checked" /\ UNCHANGED lastErr
       ELSE spc2' = "rejected" /\ lastErr' = ErrNotRunning
    /\ UNCHANGED <<configVars, life, pidFile, trackerVars, running, cancelled,
                   sessionBuffer, bevent, monitorVars, flushVars, spc, dbVars,
                   detOpen>>

\* s.running = false; s.cancel()
ManagerStopBegin ==
    /\ life = "started"
    /\ spc2 = "checked"
    /\ spc2' = "cancelled"
    /\ running' = FALSE
    /\ cancelled' = TRUE
    /\ UNCHANGED <<configVars, life, lastErr, pidFile, trackerVars,
                   sessionBuffer, bevent, monitorVars, flushVars, spc, dbVars,
                   detOpen>>

\* Tracker.Stop: if !t.running { return "tracker is not running" }
ManagerTrackerCheck ==
    /\ life = "started"
    /\ spc2 = "cancelled"
    /\ spc2' = IF trunning THEN "tcheck" ELSE "tstopped"
    /\ UNCHANGED <<configVars, life, lastErr, pidFile, trackerVars, running,
                   cancelled, sessionBuffer, bevent, monitorVars, flushVars,
                   spc, dbVars, detOpen>>

\* Tracker.Stop: t.running = false; close(t.stopChan), which panics on a
\* closed channel and ends the process.
ManagerTrackerClose ==
    /\ life = "started"
    /\ spc2 = "tcheck"
    /\ trunning' = FALSE
    /\ IF stopChan
       THEN /\ life' = "panicked"
            /\ spc2' = "panic"
            /\ spc' = "done"
            /\ UNCHANGED stopChan
       ELSE /\ spc2' = "tclosed"
            /\ stopChan' = TRUE
            /\ UNCHANGED <<life, spc>>
    /\ UNCHANGED <<configVars, lastErr, pidFile, session, event, ended,
                   activeRun, timerActive, tpc, tNext, tFrac,
                   sample, running, cancelled, sessionBuffer, bevent,
                   monitorVars, flushVars, dbVars, detOpen>>

\* Tracker.Stop once it holds sessionMutex: the open session is finalized
\* and dropped, and Tracker.Stop returns.
ManagerTrackerEnd ==
    /\ life = "started"
    /\ spc2 = "tclosed"
    /\ spc2' = "tstopped"
    /\ activeRun' = 0
    /\ IF session # NoSession
       THEN /\ ended' = Finalize(session, now)
            /\ session' = NoSession
            /\ event' = "stopped"
       ELSE UNCHANGED <<session, event, ended>>
    /\ UNCHANGED <<configVars, life, lastErr, pidFile, trunning, stopChan,
                   timerActive, tpc, tNext, tFrac,
                   sample, running, cancelled, sessionBuffer, bevent,
                   monitorVars, flushVars, spc, dbVars, detOpen>>

\* s.batchTicker.Stop(), then the first part of s.flushSessions()
ManagerFlush ==
    /\ life = "started"
    /\ spc2 = "tstopped"
    /\ spc2' = "flush"
    /\ Drain("manager")
    /\ UNCHANGED <<configVars, life, lastErr, pidFile, trackerVars, running,
                   cancelled, monitorVars, bpc, spc, dbVars, detOpen>>

\* flushSessions has returned; platform.ClosePlatformDetector()
ManagerCloseDetector ==
    /\ life = "started"
    /\ spc2 = "flush"
    /\ fpc["manager"] = "idle"
    /\ spc2' = "detclosed"
    /\ detOpen' = FALSE
    /\ UNCHANGED <<configVars, life, lastErr, pidFile, trackerVars, running,
                   cancelled, sessionBuffer, bevent, monitorVars, flushVars,
                   spc, dbVars>>

\* s.db.Close()
ManagerCloseDB ==
    /\ life = "started"
    /\ spc2 = "detclosed"
    /\ spc2' = "dbclosed"
    /\ dbOpen' = FALSE
    /\ UNCHANGED <<configVars, life, lastErr, pidFile, trackerVars, running,
                   cancelled, sessionBuffer, bevent, monitorVars, flushVars,
                   spc, dbSessions, dbDaily, fails, detOpen>>

\* logger.Close(), RemovePIDFile; Stop and program.Stop return and the
\* manager ends the process.
ManagerReturn ==
    /\ life = "started"
    /\ spc2 = "dbclosed"
    /\ spc2' = "done"
    /\ spc' = "done"
    /\ pidFile' = FALSE
    /\ UNCHANGED <<configVars, life, lastErr, trackerVars, running, cancelled,
                   sessionBuffer, bevent, monitorVars, flushVars, dbVars,
                   detOpen>>

\* The Stop that Start calls on the signal has removed the PID file and
\* returns, and Start with it: under the manager Start runs in a goroutine
\* of program.Start, which ends here; the process lives on.
StopReturnManaged ==
    /\ spc = "dbclosed"
    /\ spc' = "returned"
    /\ pidFile' = FALSE
    /\ UNCHANGED <<configVars, lifeVars, trackerVars, running, cancelled,
                   sessionBuffer, bevent, monitorVars, flushVars, dbVars, detOpen>>

\* The running service under the service manager, storage not failing:
\* Start's Stop and the manager's Stop in every interleaving.
NextManaged ==
    \/ \E s \in Samples : TickFire(s)
    \/ TickApply
    \/ TrackerExit
    \/ MonitorFire
    \/ MonitorBuffer
    \/ MonitorExit
    \/ LoopFlush
    \/ LoopExit
    \/ \E f \in AllFlushers : FlushInsert(f, TRUE)
    \/ \E f \in AllFlushers : FlushDaily(f, TRUE)
    \/ StopBegin
    \/ StopTracker
    \/ StopTrackerClose
    \/ StopTrackerEnd
    \/ StopFlush
    \/ StopCloseDetector
    \/ StopCloseDB
    \/ StopReturnManaged
    \/ ManagerStopCheck
    \/ ManagerStopBegin
    \/ ManagerTrackerCheck
    \/ ManagerTrackerClose
    \/ ManagerTrackerEnd
    \/ ManagerFlush
    \/ ManagerCloseDetector
    \/ ManagerCloseDB
    \/ ManagerReturn
    \/ AdvanceLifecycle

SpecManaged == Started(DefaultCheckInterval) /\ [][NextManaged]_vars

\* The service from before config.Load, for each file at the path, up to the
\* running service.
NextConfig ==
    \/ LoadConfig
    \/ \E c \in SavedConfigs : SaveConfig(c)
    \/ \E logOk, dbOk, detOk \in BOOLEAN : NewService(logOk, dbOk, detOk)
    \/ \E pidOk \in BOOLEAN : Start(pidOk)
    \/ StopRejected

SpecConfig == (\E f \in ConfigFiles : Unloaded(f)) /\ [][NextConfig]_vars

\* ----------------------------------------------- CheckAndLockPIDFile
\* Two daemon processes at a time, each going through CheckAndLockPIDFile
\* one system call at a time, and the stop command beside them.  A process gets its PID when it starts, any
\* PID that no live process has (the system reuses the PIDs of processes
\* that are gone); pidOwner is the PID the file holds.
PidKeeps ==
    UNCHANGED <<now, checkInterval, checkDivisor, activityWindow, cfgFile, cfg,
                lifeVars, pidFile, trackerVars, running, cancelled,
                sessionBuffer, bevent, monitorVars, flushVars, spc, dbVars,
                detOpen>>

\* No process in the slot.
NoProcess == [at |-> "idle", saw |-> NoPid, pid |-> NoPid]

\* IsProcessRunning(pid): os.FindProcess and Signal(0), which succeed when a
\* process with that PID exists, whatever it is doing.
IsProcessRunning(q) == \E p \in Procs : ppc[p].pid = q /\ ppc[p].at # "idle"

\* The process starts; os.Stat(pidFile)
PidStat(p) ==
    /\ ppc[p].at = "idle"
    /\ \E n \in Pids :
          /\ ~IsProcessRunning(n)
          /\ ppc' = [ppc EXCEPT ![p] =
                        [at |-> IF pidOwner = NoPid THEN "absent" ELSE "present",
                         saw |-> NoPid, pid |-> n]]
    /\ UNCHANGED pidOwner
    /\ PidKeeps

\* ReadPIDFile(pidFile), which fails when the file is gone
PidRead(p) ==
    /\ ppc[p].at = "present"
    /\ ppc' = IF pidOwner = NoPid
              THEN [ppc EXCEPT ![p].at = "failed"]
              ELSE [ppc EXCEPT ![p].at = "read", ![p].saw = pidOwner]
    /\ UNCHANGED pidOwner
    /\ PidKeeps

\* if IsProcessRunning(pid) { return "service is already running (PID)" }
PidCheck(p) ==
    /\ ppc[p].at = "read"
    /\ ppc' = [ppc EXCEPT ![p].at =
                   IF IsProcessRunning(ppc[p].saw) THEN "failed" ELSE "stale"]
    /\ UNCHANGED pidOwner
    /\ PidKeeps

\* RemovePIDFile(pidFile) of the stale file, which fails when it is gone
PidRemoveStale(p) ==
    /\ ppc[p].at = "stale"
    /\ IF pidOwner = NoPid
       THEN /\ ppc' = [ppc EXCEPT ![p].at = "failed"]
            /\ UNCHANGED pidOwner
       ELSE /\ ppc' = [ppc EXCEPT ![p].at = "absent"]
            /\ pidOwner' = NoPid
    /\ PidKeeps

\* WritePIDFile(pidFile): the file holds os.Getpid(), the lock is taken and
\* the service runs
PidWrite(p) ==
    /\ ppc[p].at = "absent"
    /\ ppc' = [ppc EXCEPT ![p].at = "locked", ![p].saw = NoPid]
    /\ pidOwner' = ppc[p].pid
    /\ PidKeeps

\* The process whose start failed exits.
PidExit(p) ==
    /\ ppc[p].at = "failed"
    /\ ppc' = [ppc EXCEPT ![p] = NoProcess]
    /\ UNCHANGED pidOwner
    /\ PidKeeps

\* Service.Stop in the running process: RemovePIDFile, whatever PID the
\* file holds, and the process ends.
PidStop(p) ==
    /\ ppc[p].at = "locked"
    /\ ppc' = [ppc EXCEPT ![p] = NoProcess]
    /\ pidOwner' = NoPid
    /\ PidKeeps

\* `actimed stop`, stopService in a process of its own, one system call at
\* a time.  os.Stat(PIDFile): without a file the command reports "service
\* is not running" and ends.
CmdStat ==
    /\ ppc[StopCmd].at = "idle"
    /\ pidOwner # NoPid
    /\ ppc' = [ppc EXCEPT ![StopCmd].at = "present"]
    /\ UNCHANGED pidOwner
    /\ PidKeeps

\* stopService: ReadPIDFile, which fails when the file is gone
CmdRead ==
    /\ ppc[StopCmd].at = "present"
    /\ ppc' = IF pidOwner = NoPid
              THEN [ppc EXCEPT ![StopCmd] = NoProcess]
              ELSE [ppc EXCEPT ![StopCmd].at = "read", ![StopCmd].saw = pidOwner]
    /\ UNCHANGED pidOwner
    /\ PidKeeps

\* stopService: if !IsProcessRunning(pid)
CmdCheck ==
    /\ ppc[StopCmd].at = "read"
    /\ ppc' = [ppc EXCEPT ![StopCmd].at =
                   IF IsProcessRunning(ppc[StopCmd].saw) THEN "kill" ELSE "stale"]
    /\ UNCHANGED pidOwner
    /\ PidKeeps

\* stopService: RemovePIDFile of the stale file, its error ignored, and the
\* command ends with "service is not running".
CmdRemoveStale ==
    /\ ppc[StopCmd].at = "stale"
    /\ ppc' = [ppc EXCEPT ![StopCmd] = NoProcess]
    /\ pidOwner' = NoPid
    /\ PidKeeps

\* stopService: os.FindProcess(pid) and process.Kill().  The process that
\* has the PID now is killed, wherever it is; the PID file stays as it is.
PidKill ==
    /\ ppc[StopCmd].at = "kill"
    /\ ppc' = [p \in PidProcs |->
                  IF p = StopCmd \/ (ppc[p].at # "idle" /\ ppc[p].pid = ppc[StopCmd].saw)
                  THEN NoProcess ELSE ppc[p]]
    /\ UNCHANGED pidOwner
    /\ PidKeeps

NextPID ==
    \/ \E p \in Procs :
          \/ PidStat(p)
          \/ PidRead(p)
          \/ PidCheck(p)
          \/ PidRemoveStale(p)
          \/ PidWrite(p)
          \/ PidExit(p)
          \/ PidStop(p)
    \/ CmdStat
    \/ CmdRead
    \/ CmdCheck
    \/ CmdRemoveStale
    \/ PidKill

SpecPID == NotConstructed /\ [][NextPID]_vars

\* ------------------------------------------------------------------ claims
Range(q) == {q[i] : i \in DOMAIN q}

RECURSIVE SumDur(_)
SumDur(rows) ==
    IF rows = {} THEN 0
    ELSE LET r == CHOOSE x \in rows : TRUE IN r.dur + SumDur(rows \ {r})

\* The (application, date) pairs the store knows.
StoreKeys == DOMAIN dbDaily \cup {<<r.app, DateOf(r.start)>> : r \in dbSessions}
\* The stored daily total of k, 0 when there is no row.
DailyTotal(k) == IF k \in DOMAIN dbDaily THEN dbDaily[k] ELSE 0
\* The sum of the durations of the session rows of k.
RowSum(k) == SumDur({r \in dbSessions : <<r.app, DateOf(r.start)>> = k})

\* s, or a later snapshot of the same session, is a row of the store.
InStore(s) == \E r \in dbSessions : SameKey(r, s) /\ r.end >= s.end
\* s, or a later snapshot of the same session, is pending.
InBuffer(s) == \E r \in Range(sessionBuffer) : SameKey(r, s) /\ r.end >= s.end

\* C1: the pending buffer holds at most one entry per (application, window
\* title) pair, whatever the number of monitor ticks.
C1_OneEntryPerWindow ==
    \A i, j \in DOMAIN sessionBuffer :
        i # j => ~(/\ sessionBuffer[i].app = sessionBuffer[j].app
                   /\ sessionBuffer[i].title = sessionBuffer[j].title)

\* C2: when no storage write has failed and no flush stands between its two
\* transactions, the daily total of every (application, date) equals the sum
\* of the durations of the session rows that start on that date.
C2_DailyTotalIsRowSum ==
    (fails = 0 /\ \A f \in Flushers : fpc[f] # "daily")
        => \A k \in StoreKeys : DailyTotal(k) = RowSum(k)

\* C3: once Stop has returned from a shutdown without storage failures,
\* nothing handed to bufferSession is left pending or in an unfinished
\* flush.
C3_StopLosesNothing ==
    (spc = "done" /\ fails = 0)
        => /\ sessionBuffer = <<>>
           /\ \A f \in Flushers : fbatch[f] = <<>>

\* C4: after a flush that failed, every session of its batch is in the store
\* or back in the pending buffer.
C4_FailedBatchKept ==
    \A f \in Flushers :
        fres[f] \in {"errInsert", "errDaily"}
            => \A s \in Range(fbatch[f]) : InStore(s) \/ InBuffer(s)

\* C5: session rows are never durable without their daily-total increments
\* once the flush that wrote them has returned, failed or not: every row's
\* duration is then part of its (application, date) total.
C5_RowsNeverWithoutTotals ==
    (\A f \in Flushers : fpc[f] # "daily")
        => \A k \in StoreKeys : RowSum(k) <= DailyTotal(k)

\* C6: a tick that finalizes the open session (window changed, idle, locked)
\* hands the completed session, with its final end time, to the pending
\* buffer.
C6_FinalizedIsBuffered ==
    [][(session # NoSession /\ ended' # ended /\ event' \in {"paused", "switched"})
          => ended' \in Range(sessionBuffer')]_vars

\* C7: when Tracker.Stop has force-finalized an open session, that session
\* (end = stop time) is pending, or already drained by the periodic flush,
\* so that Stop's final flush persists it.
C7_StopEmitsOpenSession ==
    (spc = "tstopped" /\ event = "stopped")
        => ended \in Range(sessionBuffer) \cup Range(fbatch["loop"])

\* C8: after n active unlocked ticks in a row with one window, starting from
\* NoSession, the open session's duration is n times the tick interval.
C8_FirstTickCounts ==
    activeRun > 0 => session.dur = activeRun * checkInterval

\* The tick of instant t has been handled.
TickDone(t) == now = t /\ tNext > t /\ tpc = "wait"

\* C9: in the scenario, after tick 4 there is one session (Editor, start 0,
\* end 4, 4 s) and none was finalized before; tick 5 finalizes it and leaves
\* no session open; tick 6 opens a Browser session that starts at 6.
C9_Scenario ==
    /\ TickDone(4) =>
          /\ session = [app |-> "Editor", title |-> "a", start |-> 0, end |-> 4,
                        dur |-> 4]
          /\ ended = NoSession
    /\ TickDone(5) =>
          /\ session = NoSession
          /\ ended = [app |-> "Editor", title |-> "a", start |-> 0, end |-> 5,
                      dur |-> 4]
          /\ event = "paused"
    /\ TickDone(6) =>
          /\ session.app = "Browser" /\ session.start = 6
          /\ event = "started"

C9_Witness ==
    /\ TickDone(6)
    /\ session.app = "Browser"
    /\ ended.app = "Editor"
    /\ ended.dur = 4

\* C10: a tick that reports another (application, title) than the open
\* session's finalizes that session with end = the tick's time and opens the
\* new session with start = the same time.
C10_SwitchNoGapNoOverlap ==
    [][(/\ tpc = "tick" /\ tpc' = "wait"
        /\ Decide(sample) = "update"
        /\ session # NoSession
        /\ ~SameWindow(session, sample.win))
          => /\ SameKey(ended', session)
             /\ ended'.dur = session.dur
             /\ ended'.end = now
             /\ session'.start = now
             /\ session'.start = ended'.end
             /\ SameWindow(session', sample.win)]_vars

C10_Witness ==
    /\ event = "switched"
    /\ ended # NoSession
    /\ session # NoSession
    /\ ended.end = session.start
    /\ ended.end > ended.start
    /\ ~SameWindow(ended, session)

\* The tick of this instant has been handled and trackLoop waits again.
TickHandled == tpc = "wait" /\ tNext = now + checkInterval

\* C11: a tick whose lock probe reports the screen locked finalizes the open
\* session (end = the tick's time, duration as it was) and leaves the tracker
\* in NoSession, whatever the idle time and the foreground window are at
\* that instant; no duration grows in that tick.
C11_LockedTickPauses ==
    [][(/\ tpc = "tick" /\ tpc' = "wait"
        /\ ~sample.lockErr
        /\ sample.locked)
          => /\ session' = NoSession
             /\ session # NoSession =>
                   /\ ended' = [session EXCEPT !.end = now]
                   /\ event' = "paused"
             /\ session = NoSession => ended' = ended]_vars

\* The tick of this instant paused a session that had been extended, and the
\* timer still says active: the pause came from the lock probe and not from
\* the idle time.
C11_Witness ==
    /\ TickHandled
    /\ session = NoSession
    /\ event = "paused"
    /\ ended.end = now
    /\ ended.dur > 0
    /\ timerActive

\* C12: an unlocked tick whose idle time is at or above the activity window
\* finalizes the open session and leaves the tracker in NoSession; from
\* NoSession a session is opened only by a tick that is unlocked and whose
\* idle time is below the activity window.
C12_IdleTickPauses ==
    [][/\ (/\ tpc = "tick" /\ tpc' = "wait"
           /\ ~sample.lockErr /\ ~sample.locked /\ ~sample.idleErr
           /\ sample.idle >= activityWindow)
             => /\ session' = NoSession
                /\ session # NoSession =>
                      /\ ended' = [session EXCEPT !.end = now]
                      /\ event' = "paused"
       /\ (session = NoSession /\ session' # NoSession)
             => /\ tpc = "tick"
                /\ ~sample.lockErr /\ ~sample.locked /\ ~sample.idleErr
                /\ sample.idle < activityWindow]_vars

\* An idle tick paused a session, and a later tick has been handled without
\* opening one.
C12_Witness ==
    /\ TickHandled
    /\ session = NoSession
    /\ event = "paused"
    /\ ended.dur > 0
    /\ ended.end < now
    /\ ~timerActive

\* C13: whatever the timer said before, after Timer.Update(d) with the
\* activity window T the timer is active exactly when d < T; d = T is idle.
C13_ActiveIffBelowWindow ==
    [][(/\ tpc = "tick" /\ tpc' = "wait"
        /\ ~sample.lockErr /\ ~sample.locked /\ ~sample.idleErr)
          => /\ timerActive' = (sample.idle < activityWindow)
             /\ sample.idle = activityWindow => ~timerActive']_vars

\* With the window at 301 s the only idle time that is not below it is 301 s
\* itself: the timer went idle on d = T.
C13_Witness ==
    /\ activityWindow \in IdleTimes
    /\ \A d \in IdleTimes : d >= activityWindow => d = activityWindow
    /\ TickHandled
    /\ ~timerActive

\* A probe that tick() asked returned an error.
ProbeFailed(s) ==
    \/ s.lockErr
    \/ ~s.locked /\ s.idleErr
    \/ ~s.locked /\ ~s.idleErr /\ s.idle < activityWindow /\ s.winErr

\* C14: a tick in which the lock, idle or window probe returns an error
\* makes no session transition: the open session keeps start, end and
\* duration and stays open, and no session is opened or finalized.
C14_FailedProbeSkipsTick ==
    [][(/\ tpc = "tick" /\ tpc' = "wait"
        /\ ProbeFailed(sample))
          => /\ session' = session
             /\ ended' = ended
             /\ event' = event]_vars

\* A session that was extended by the tick of this instant and spans more
\* instants than it counts: a tick in between was skipped and tracking
\* went on.
C14_Witness ==
    /\ TickHandled
    /\ session # NoSession
    /\ event = "extended"
    /\ session.end = now
    /\ session.dur > 0
    /\ session.end - session.start > session.dur * checkInterval

\* The pending entry e is the segment that s continues.
Contiguous(e, s) == e.app = s.app /\ e.title = s.title /\ e.end = s.start

\* C15: bufferSession of a session s replaces a pending entry of the same
\* (application, title) whose end equals s's start, leaving the number of
\* pending entries as it was with s in that entry's place; when there is no
\* such entry s is appended as a new entry.
C15_ContiguousMerge ==
    [][(mpc = "got" /\ mpc' = "wait")
          => IF \E i \in DOMAIN sessionBuffer : Contiguous(sessionBuffer[i], msnap)
             THEN /\ Len(sessionBuffer') = Len(sessionBuffer)
                  /\ \E i \in DOMAIN sessionBuffer :
                        /\ Contiguous(sessionBuffer[i], msnap)
                        /\ sessionBuffer' = [sessionBuffer EXCEPT ![i] = msnap]
             ELSE sessionBuffer' = Append(sessionBuffer, msnap)]_vars

\* The last bufferSession updated an entry, and the buffer holds that one
\* entry for the segment: the session that starts where the replaced one
\* ended.
C15_Witness ==
    /\ bevent = "updated"
    /\ Len(sessionBuffer) = 1
    /\ sessionBuffer[1].start > 0
    /\ sessionBuffer[1].dur > 0

\* C16: the drain of flushSessions and bufferSession do not interleave.  A
\* drain moves the whole buffer, entry by entry as it stood, into the batch
\* of the flush that drains and leaves the buffer empty, so no entry goes to
\* two batches or to none; a bufferSession during a flush leaves every batch
\* as it is and its session pending, keeping the other pending entries; and
\* nothing else changes the buffer or puts entries into a batch.
C16_DrainIsAtomic ==
    [][/\ \A f \in Flushers :
            (fpc[f] = "idle" /\ fpc'[f] = "insert")
               => /\ fbatch'[f] = sessionBuffer
                  /\ sessionBuffer' = <<>>
                  /\ \A g \in Flushers \ {f} : fbatch'[g] = fbatch[g]
       /\ (mpc = "got" /\ mpc' = "wait")
               => /\ fbatch' = fbatch
                  /\ msnap \in Range(sessionBuffer')
                  /\ Len(sessionBuffer') >= Len(sessionBuffer)
                  /\ \A i \in DOMAIN sessionBuffer :
                        sessionBuffer'[i] \in {sessionBuffer[i], msnap}
       /\ sessionBuffer' # sessionBuffer
               => \/ mpc = "got" /\ mpc' = "wait"
                  \/ \E f \in Flushers : fpc[f] = "idle" /\ fpc'[f] = "insert"
       /\ \A f \in Flushers :
            fbatch'[f] # fbatch[f]
               => \/ fpc[f] = "idle" /\ fbatch'[f] = sessionBuffer
                  \/ fpc[f] = "daily" /\ fbatch'[f] = <<>>]_vars

\* A session was buffered while both flushes were between their drain and
\* their last write: it is pending, and each batch holds what its drain
\* took.
C16_Witness ==
    /\ \A f \in Flushers : fpc[f] # "idle" /\ fbatch[f] # <<>>
    /\ sessionBuffer # <<>>
    /\ bevent = "added"

\* The last session of batch b that has the key of s.
LastWithKey(b, s) ==
    b[CHOOSE i \in DOMAIN b :
          /\ SameKey(b[i], s)
          /\ \A j \in DOMAIN b : SameKey(b[j], s) => j <= i]

\* C17: the sessions table never holds two rows with one (application,
\* window title, start); a committed BatchInsertSessions leaves, for every
\* session of the batch, the one row of its key carrying the end and the
\* duration last written for that key, and leaves the other rows alone.
C17_OneRowPerKey ==
    [][/\ \A r1, r2 \in dbSessions' : SameKey(r1, r2) => r1 = r2
       /\ \A f \in Flushers :
            (fpc[f] = "insert" /\ fpc'[f] = "daily")
               => /\ \A s \in Range(fbatch[f]) :
                        LastWithKey(fbatch[f], s) \in dbSessions'
                  /\ \A r \in dbSessions :
                        r \in dbSessions'
                           \/ \E s \in Range(fbatch[f]) : SameKey(r, s)
                  /\ \A r \in dbSessions' :
                        r \in dbSessions \/ r \in Range(fbatch[f])]_vars

\* The store holds one row although more seconds were flushed for its
\* (application, date) than the row counts: its key was written again and
\* the row replaced.
C17_Witness ==
    /\ fpc["loop"] = "idle"
    /\ Cardinality(dbSessions) = 1
    /\ \E r \in dbSessions :
          DailyTotal(<<r.app, r.start \div SecondsPerDay>>) > r.dur

\* The seconds that batch b holds for application a on day d.
BatchSeconds(b, k) ==
    SeqDur(SelectSeq(b, LAMBDA s : <<s.app, s.start \div SecondsPerDay>> = k))

\* C18: a committed UpdateDailyStatsBatch adds each session's duration to
\* the total of (application, day of the session's start), creating the
\* total when there is none, and leaves every other total as it was.
C18_AdditiveDailyUpsert ==
    [][\A f \in Flushers :
          (fpc[f] = "daily" /\ fpc'[f] = "idle" /\ fres'[f] = "ok")
             => /\ DOMAIN dbDaily' =
                      DOMAIN dbDaily \cup
                         {<<s.app, s.start \div SecondsPerDay>> :
                              s \in Range(fbatch[f])}
                /\ \A k \in DOMAIN dbDaily' :
                      dbDaily'[k] =
                         DailyTotal(k) + BatchSeconds(fbatch[f], k)]_vars

\* An application has totals on two days, one of them larger than any
\* single session: it was created by one session and added to by another.
C18_Witness ==
    /\ fres["loop"] = "ok"
    /\ \E k1, k2 \in DOMAIN dbDaily :
          /\ k1[1] = k2[1]
          /\ k1[2] # k2[2]
          /\ \E s \in SnapshotInputs : k1 = <<s.app, s.start \div SecondsPerDay>>
          /\ \A s \in SnapshotInputs : dbDaily[k1] > s.dur

\* C19: for two sessions of one application and one day, the daily total
\* after updating with both is the total before plus both durations, and it
\* is the same whether they come in one batch or in two batches, in either
\* order.
C19_BatchingDoesNotMatter ==
    \A a, b \in SnapshotInputs :
        (a.app = b.app /\ a.start \div SecondsPerDay = b.start \div SecondsPerDay)
           => LET k == <<a.app, a.start \div SecondsPerDay>>
                  one == UpdateDailyStatsBatch(dbDaily, <<a, b>>)
                  two == UpdateDailyStatsBatch(
                             UpdateDailyStatsBatch(dbDaily, <<a>>), <<b>>)
                  rev == UpdateDailyStatsBatch(
                             UpdateDailyStatsBatch(dbDaily, <<b>>), <<a>>)
              IN /\ one = two
                 /\ one = rev
                 /\ one[k] = DailyTotal(k) + a.dur + b.dur

\* Two sessions of one application and one day have been flushed and the
\* daily total is the sum of their durations.
C19_Witness ==
    /\ fpc["loop"] = "idle"
    /\ \E r1, r2 \in dbSessions :
          /\ r1 # r2
          /\ r1.app = r2.app
          /\ r1.start \div SecondsPerDay = r2.start \div SecondsPerDay
          /\ r1.dur > 0 /\ r2.dur > 0
          /\ DailyTotal(<<r1.app, r1.start \div SecondsPerDay>>) = r1.dur + r2.dur

\* The rows of the totals that q asks for: the application, when given, and
\* the day between the start and the end day, both included, when given.
Wanted(q) ==
    {r \in StatsRows(dbDaily) :
        /\ q.app # "" => r.app = q.app
        /\ q.start # NoTime => r.date[1] >= q.start \div SecondsPerDay
        /\ q.end # NoTime => r.date[1] <= q.end \div SecondsPerDay}

\* C20: GetDailyStats returns each (application, date) total that matches
\* the application filter and lies between the start and the end date, both
\* included, once, latest date first, cut to the limit when one is given;
\* without filters, after sessions of 30 s and 45 s of one application and
\* day, it returns the one row with total 75.
C20_QueryMatchesFilters ==
    \A q \in Queries :
        \A res \in GetDailyStats(dbDaily, q) :
           LET n == Cardinality(Wanted(q))
           IN /\ Range(res) \subseteq Wanted(q)
              /\ Cardinality(Range(res)) = Len(res)
              /\ Len(res) = IF q.limit > 0 /\ q.limit < n THEN q.limit ELSE n
              /\ \A i, j \in DOMAIN res : i < j => res[i].date[1] >= res[j].date[1]
              /\ \A r \in Wanted(q) \ Range(res) :
                    \A i \in DOMAIN res : r.date[1] <= res[i].date[1]
              /\ (/\ q = [app |-> "", start |-> NoTime, end |-> NoTime, limit |-> 0]
                  /\ DOMAIN dbDaily = {<<"Editor", 0>>}
                  /\ \E r1, r2 \in dbSessions :
                        /\ r1.dur = 30 /\ r2.dur = 45
                        /\ dbSessions = {r1, r2}
                        /\ dbDaily[<<"Editor", 0>>] = r1.dur + r2.dur)
                    => res = <<[app |-> "Editor", date |-> <<0>>, total |-> 75]>>

\* The session's end is not before its start and its duration is not more
\* than the time between them.
WithinSpan(s) == s.end >= s.start /\ s.dur <= s.end - s.start

\* C21: at every configured check interval, the open session, the session
\* last finalized and every buffered snapshot have end >= start and a
\* duration of at most end - start.
C21_DurationWithinSpan ==
    /\ session # NoSession => WithinSpan(session)
    /\ ended # NoSession => WithinSpan(ended)
    /\ \A i \in DOMAIN sessionBuffer : WithinSpan(sessionBuffer[i])

\* C22: a tick that extends the open session grows its duration by the
\* whole seconds of one check interval: 1 at 1 s, k at k seconds.
C22_ExtensionCountsInterval ==
    [][(/\ tpc = "tick" /\ tpc' = "wait"
        /\ event' = "extended"
        /\ session # NoSession
        /\ session' # NoSession
        /\ SameKey(session', session))
          => session'.dur = session.dur + checkInterval]_vars

\* C23: one session is open at a time: a tick that opens a session for
\* another (application, title) than the open session's leaves only the new
\* one open, the previous one being closed at the tick's time in that step.
C23_OneOpenSession ==
    [][(/\ tpc = "tick" /\ tpc' = "wait"
        /\ Decide(sample) = "update"
        /\ session # NoSession
        /\ ~SameWindow(session, sample.win))
          => /\ session' = NewSession(sample.win, now)
             /\ ~SameKey(session', session)
             /\ ended' = [session EXCEPT !.end = now]
             /\ event' = "switched"]_vars

C23_Witness ==
    /\ event = "switched"
    /\ session # NoSession /\ session.dur = 0 /\ session.start = now
    /\ ended # NoSession /\ ended.dur > 0 /\ ended.end = now
    /\ ended.app # session.app

\* C24: no step lowers or removes the daily total of an (application,
\* date): every total of before is still there and at least as large.
C24_DailyTotalsNeverShrink ==
    [][\A k \in DOMAIN dbDaily :
          k \in DOMAIN dbDaily' /\ dbDaily'[k] >= dbDaily[k]]_vars

C24_Witness ==
    /\ Cardinality(DOMAIN dbDaily) > 1
    /\ \E k \in DOMAIN dbDaily :
          /\ \E s \in SnapshotInputs : k = <<s.app, s.start \div SecondsPerDay>>
          /\ dbSessions # {}
          /\ \A r \in dbSessions : dbDaily[k] > r.dur

\* Everything but the error last returned.
AllButErr ==
    <<now, checkInterval, checkDivisor, extraVars, life, pidFile, spc2, activityWindow,
      trackerVars, running, cancelled, sessionBuffer, bevent, monitorVars,
      flushVars, spc, dbVars, detOpen>>

\* C25: a Start call on a running service returns "service is already
\* running" and changes nothing: no second PID lock, tracker or loop.
C25_StartWhileRunningRejected ==
    [][(/\ running
        /\ lastErr' \in {ErrAlreadyRunning, ErrPIDLock, ErrTracker}
        /\ lastErr' # lastErr)
          => /\ lastErr' = ErrAlreadyRunning
             /\ UNCHANGED AllButErr]_vars

C25_Witness ==
    /\ lastErr = ErrAlreadyRunning
    /\ running
    /\ life = "started"
    /\ session # NoSession
    /\ mpc # "off" /\ bpc # "off"

\* C26: a Stop call on a service that is not running returns "service is
\* not running" and does no shutdown step: on a service never started
\* nothing is cancelled, stopped, flushed or closed, and the rejected call
\* changes nothing at all.
C26_StopWhenNotRunningRejected ==
    [][/\ (life = "new" /\ ~running /\ spc = "run")
            => UNCHANGED <<cancelled, stopChan, spc, dbOpen, detOpen, fpc,
                           sessionBuffer>>
       /\ (lastErr' = ErrNotRunning /\ lastErr' # lastErr)
            => ~running /\ UNCHANGED AllButErr]_vars

C26_Witness ==
    /\ lastErr = ErrNotRunning
    /\ life = "new"
    /\ ~running /\ ~cancelled /\ ~stopChan
    /\ spc = "run"
    /\ dbOpen /\ detOpen

\* C30: a NewService whose logger, storage or detector initialization fails
\* returns the error and no service: nothing runs, then or later.  A Start
\* whose PID lock or tracker start fails returns the error, leaves running
\* false and starts neither the monitor loop nor the batch loop.
C30_FailedStartupStartsNothing ==
    [][/\ life' = "failed"
            => /\ lastErr' \in {ErrLogger, ErrDatabase, ErrDetector}
               /\ ~running'
               /\ tpc' = "off" /\ mpc' = "off" /\ bpc' = "off"
       /\ life = "failed" => life' = "failed"
       /\ (lastErr' \in {ErrPIDLock, ErrTracker} /\ lastErr' # lastErr)
            => /\ ~running'
               /\ UNCHANGED <<life, running, trunning, tpc, mpc, bpc>>]_vars

C30_Witness ==
    /\ lastErr = ErrPIDLock
    /\ life = "new"
    /\ ~running
    /\ ~pidFile
    /\ tpc = "off" /\ mpc = "off" /\ bpc = "off"

\* A NewService that failed on the detector, after storage was opened.
C30_InitFailureSeen ==
    life = "failed" /\ lastErr = ErrDetector /\ dbOpen /\ ~detOpen

\* C27: Stop goes in order: the context is cancelled; then the tracker is
\* stopped and its open session finalized; then the buffer is drained and
\* flushed a last time; then the detector is closed; then storage is
\* closed.  The last flush has returned before storage is closed.
C27_StopOrder ==
    [][/\ (~stopChan /\ stopChan')
            => cancelled /\ ~running /\ ~trunning'
       /\ (spc = "tclosed" /\ spc' # spc)
            => stopChan /\ cancelled /\ session' = NoSession
       /\ (spc = "tstopped" /\ spc' # spc)
            => /\ stopChan /\ cancelled
               /\ sessionBuffer' = <<>>
               /\ fbatch'["stop"] = sessionBuffer
       /\ (detOpen /\ ~detOpen')
            => /\ stopChan
               /\ fpc["stop"] = "idle" /\ fres["stop"] # "none"
               /\ dbOpen
       /\ (dbOpen /\ ~dbOpen')
            => /\ ~detOpen
               /\ fpc["stop"] = "idle" /\ fres["stop"] # "none"]_vars

C27_Witness ==
    /\ ~dbOpen /\ ~detOpen
    /\ fres["stop"] = "ok"
    /\ ended # NoSession /\ event = "stopped"
    /\ \E r \in dbSessions : SameKey(r, ended)

\* The flushSessions calls between their drain and their return.
InFlight == {f \in Flushers : fpc[f] # "idle"}

\* C28: at most one flush is in flight at any time, however the batch
\* loop's flush and Stop's last flush interleave.
C28_OneFlushInFlight == Cardinality(InFlight) <= 1

\* C29: a flush in progress when shutdown begins runs to completion
\* rather than being cut off: storage is not closed, and the process does
\* not end, while a flush is between its drain and its last write.
C29_FlushInProgressCompletes ==
    (~dbOpen \/ spc = "done") => InFlight = {}

\* C36: once Tracker.Stop has returned the tracker holds no open session,
\* and no later step opens or extends one, a tick that was in progress when
\* Stop was called included.
C36_NoSessionAfterTrackerStop ==
    [][(stopChan /\ spc \notin {"run", "cancelled", "tcheck", "tclosed"})
          => session = NoSession /\ session' = NoSession]_vars

\* C40: a buffered snapshot is a copy: a step that opens, extends, finalizes
\* or replaces the tracker's session leaves the buffer, the snapshot in
\* hand and the drained batches as they are; the buffer changes only when
\* bufferSession puts the whole snapshot in place of one entry or appends
\* it, or when a flush drains it.
C40_BufferedSnapshotsAreCopies ==
    [][/\ session' # session
            => UNCHANGED <<sessionBuffer, msnap, fbatch>>
       /\ sessionBuffer' # sessionBuffer
            => \/ /\ mpc = "got" /\ mpc' = "wait"
                  /\ \/ sessionBuffer' = Append(sessionBuffer, msnap)
                     \/ \E i \in DOMAIN sessionBuffer :
                           sessionBuffer' = [sessionBuffer EXCEPT ![i] = msnap]
               \/ /\ sessionBuffer' = <<>>
                  /\ \E f \in Flushers : fbatch'[f] = sessionBuffer]_vars

C40_Witness ==
    /\ session # NoSession
    /\ bevent = "updated"
    /\ \E i \in DOMAIN sessionBuffer :
          /\ SameKey(sessionBuffer[i], session)
          /\ sessionBuffer[i].dur > 0
          /\ session.dur > sessionBuffer[i].dur
          /\ session.end > sessionBuffer[i].end

\* C37: no detector probe runs after the detector was closed, and no
\* storage write is attempted after Stop closed the database.
C37_NoUseAfterClose ==
    [][/\ (tpc = "wait" /\ tNext' # tNext) => detOpen
       /\ (\E f \in Flushers : fpc[f] \in {"insert", "daily"} /\ fpc'[f] # fpc[f])
            => dbOpen]_vars

\* C38: a write never puts an older snapshot in the place of a stored row:
\* every stored row keeps its key, and its end time and duration do not
\* decrease.
C38_StoredRowsNeverGoBack ==
    [][\A r \in dbSessions :
          \E n \in dbSessions' :
             SameKey(n, r) /\ n.end >= r.end /\ n.dur >= r.dur]_vars

\* C31: no interleaving of Start and Stop calls, probe errors and storage
\* errors ends in a panic: the process never crashes.
C31_NeverPanics == life # "panicked"

\* C35: the shutdown sequence runs at most once: Start's Stop and the
\* manager's Stop are never both past the s.running check.
C35_OneCallerShutsDown ==
    ~(spc # "run" /\ spc2 \notin {"idle", "rejected"})

\* C33: `actimed stop` ends the daemon gracefully: when the daemon has
\* ended on the command, its Stop sequence has run, no session is left in
\* the buffer or in a batch not yet written, and the PID file is gone.
C33_StopCommandIsGraceful ==
    life = "killed"
        => /\ ~running /\ cancelled /\ ~dbOpen
           /\ sessionBuffer = <<>>
           /\ InFlight = {}
           /\ ~pidFile

\* C39: RunForeground returns nil after a shutdown by one signal: the Stop
\* it calls once Start has returned does not fail.
C39_ForegroundReturnsNil == lastErr # ErrStopFailed

\* C32: at most one live process has passed CheckAndLockPIDFile and runs
\* the service, however two starting processes interleave.
C32_OneProcessHoldsLock ==
    Cardinality({p \in Procs : ppc[p].at = "locked"}) <= 1

\* C34: the configuration config.Load returns has a non-zero check interval
\* and activity window; without a file it is the default one (1 s, 5 min);
\* with a file each duration is the file's when that is not zero, and the
\* default when it is zero or omitted.
C34_LoadFillsDefaults ==
    [][(life = "unloaded" /\ life' = "none")
          => /\ cfg'.check # 0 /\ cfg'.window # 0
             /\ cfgFile.kind = "missing"
                  => /\ cfg' = getDefaultConfig
                     /\ cfg'.check = DefaultCheckInterval
                     /\ cfg'.window = ActivityWindow
             /\ cfgFile.kind = "yaml"
                  => /\ cfg'.check = IF cfgFile.check = 0
                                     THEN DefaultCheckInterval ELSE cfgFile.check
                     /\ cfg'.window = IF cfgFile.window = 0
                                      THEN ActivityWindow ELSE cfgFile.window
                     /\ cfg'.idle = IF cfgFile.idle = 0
                                    THEN DefaultIdleTimeout ELSE cfgFile.idle]_vars

\* The service runs on a configuration loaded from a file that omits the
\* check interval and gives another activity window than the default.
C34_Witness ==
    /\ life = "started"
    /\ cfgFile.kind = "yaml"
    /\ cfgFile.check = 0
    /\ cfgFile.window \notin {0, ActivityWindow}
    /\ checkInterval = DefaultCheckInterval
    /\ activityWindow = cfgFile.window
=============================================================================
